---- MODULE Spec2Model ----
(***************************************************************************)
(* A model of the parameter-space engine (param_space.py) and of the       *)
(* reachability recurrence built on it (graph_traversal.py).               *)
(*                                                                         *)
(* A ParamSpace is modelled by its spec: the sequence of <<name, list>>    *)
(* pairs of the dict, in insertion order.  A Point is a record of its      *)
(* owning space and its key (a function from names to categories, which    *)
(* may hold entries beyond the space's names).  A dict keyed by Points is  *)
(* the sequence of its <<key, value>> entries in insertion order, looked   *)
(* up with Point.__eq__.  An operation that raises yields TypeErr.         *)
(***************************************************************************)
EXTENDS Integers, Sequences, FiniteSets, TLC

VARIABLES
    self,          \* ParamSpace: the receiver of the space operations
    other_space,   \* ParamSpace: the argument of union
    unionRes,      \* outcome of self.union(other_space)
    absorbRes,     \* outcome of self.union(other_space).intersection(self)
    enumRes,       \* the sequences yielded by the calls of self.points() so far
    map_pspace,    \* the ParamSpace a Map is built over
    map_arg,       \* the dict handed to Map(pspace, map)
    map_obj,       \* outcome of Map(pspace, map): on success the Map object
    map_op,        \* the last Map.__getitem__ / Map.__setitem__ call and its outcome
    pspace1,       \* S1: the space stacked by, or the subspace projected onto
    pspace2,       \* S2 (stacking), or the superspace (projection)
    map2,          \* outcome of building the flat Map over S1.union(S2)
    stacked,       \* outcome of stack_map(map2, pspace1)
    unstacked,     \* outcome of unstack_map(stacked, map2.pspace)
    point1,        \* the Point of the subspace handed to expand_point
    expanded,      \* outcome of list(expand_point(point1, pspace2))
    contracted,    \* outcomes of contract_point(q, pspace1) for each expanded q
    graph,         \* g.es: the directed edges of the graph g
    cache_map,     \* MappedFunction.cache_map of reachable_in_x_map
    stack,         \* the __getitem__ calls in progress, innermost last
    ret,           \* outcome of the call that returned last
    calls,         \* per Point, how often the wrapped function was invoked
    prev,          \* the last completed outermost lookup: its Point and value
    repeated,      \* the last completed outermost lookup repeated the one before
    lookups,       \* the number of outermost lookups made so far
    function       \* the function wrapped by the MappedFunction

spaceVars == <<self, other_space, unionRes, absorbRes, enumRes>>

mapVars == <<map_pspace, map_arg, map_obj, map_op>>

reshapeVars == <<pspace1, pspace2, map2, stacked, unstacked, point1, expanded, contracted>>

memoVars == <<graph, cache_map, stack, ret, calls, prev, repeated, lookups, function>>

vars == <<spaceVars, mapVars, reshapeVars, memoVars>>

----------------------------------------------------------------------------
(* Bounds of the input domains *)

\* longest category list of a generated dimension
MaxLen == 2

\* most outermost lookups of the memoized function in one run
MaxLookups == 2

\* the interpreter's recursion limit, counted in nested __getitem__ calls
RecursionLimit == 6

\* most Points of a space that a generated Map is built over
MaxPoints == 2

\* dimension names of the generated spaces
DimNames == {"x", "y"}

\* category values of the generated spaces
Categories == {1, 2}

\* values stored in generated Maps
Values == {0, 1}

----------------------------------------------------------------------------
(* Outcomes *)

\* an operation that has not run yet
NotRun == [done |-> FALSE]

\* raise TypeError(...)
TypeErr == [done |-> TRUE, ok |-> FALSE, err |-> "TypeError"]

\* RecursionError: maximum recursion depth exceeded
RecursionErr == [done |-> TRUE, ok |-> FALSE, err |-> "RecursionError"]

\* raise KeyError(...)
KeyErr == [done |-> TRUE, ok |-> FALSE, err |-> "KeyError"]

\* normal return of v
Ok(v) == [done |-> TRUE, ok |-> TRUE, val |-> v]

----------------------------------------------------------------------------
(* ParamSpace *)

ToSet(l) == {l[i] : i \in DOMAIN l}

\* self.spec.keys()
Keys(spec) == {spec[i][1] : i \in DOMAIN spec}

\* self.spec[k]
Cats(spec, k) == spec[CHOOSE i \in DOMAIN spec : spec[i][1] = k][2]

\* self.spec.get(k, [])
GetOrEmpty(spec, k) == IF k \in Keys(spec) THEN Cats(spec, k) ELSE <<>>

\* Iterating a Python set of names visits them in an order the program does
\* not control: every total order of the names is a possible one.
SetOrders == {o \in [1..Cardinality(DimNames) -> DimNames] :
                 \A i, j \in DOMAIN o : i # j => o[i] # o[j]}

\* the names of K in the order o
IterSet(K, o) == LET in(n) == n \in K IN SelectSeq(o, in)

\* ParamSpace.union, iterating key_union in the order o
union_mut_noraise(spec1, spec2, o) ==
    LET key_union == Keys(spec1) \cup Keys(spec2)
        ks == IterSet(key_union, o)
    IN Ok([i \in DOMAIN ks |->
            LET l1 == GetOrEmpty(spec1, ks[i])
                l2 == GetOrEmpty(spec2, ks[i])
            IN <<ks[i], IF l1 # <<>> THEN l1 ELSE l2>>])

union(spec1, spec2, o) ==
    LET key_union == Keys(spec1) \cup Keys(spec2)
        ks == IterSet(key_union, o)
        conflict(k) ==
            LET l1 == GetOrEmpty(spec1, k)
                l2 == GetOrEmpty(spec2, k)
            IN l1 # <<>> /\ l2 # <<>> /\ ToSet(l1) # ToSet(l2)
    IN IF \E k \in key_union : conflict(k)
       THEN TypeErr
       ELSE Ok([i \in DOMAIN ks |->
                 LET l1 == GetOrEmpty(spec1, ks[i])
                     l2 == GetOrEmpty(spec2, ks[i])
                 IN <<ks[i], IF l1 # <<>> THEN l1 ELSE l2>>])

\* ParamSpace.intersection, iterating key_intersection in the order o
intersection_mut_allkeys(spec1, spec2, o) ==
    LET ks == IterSet(Keys(spec1), o)
    IN Ok([i \in DOMAIN ks |-> <<ks[i], GetOrEmpty(spec1, ks[i])>>])

intersection(spec1, spec2, o) ==
    LET key_intersection == Keys(spec1) \cap Keys(spec2)
        ks == IterSet(key_intersection, o)
    IN IF \E k \in key_intersection :
             ToSet(GetOrEmpty(spec1, k)) # ToSet(GetOrEmpty(spec2, k))
       THEN TypeErr
       ELSE Ok([i \in DOMAIN ks |-> <<ks[i], GetOrEmpty(spec1, ks[i])>>])

\* ParamSpace.difference: the intersection is computed for its check only
difference(spec1, spec2, o) ==
    LET ks == IterSet(Keys(spec1) \ Keys(spec2), o)
    IN IF ~intersection(spec1, spec2, o).ok
       THEN TypeErr
       ELSE Ok([i \in DOMAIN ks |-> <<ks[i], Cats(spec1, ks[i])>>])

\* ParamSpace.__eq__
SpaceEq_mut_identity(spec1, spec2) == spec1 = spec2

SpaceEq(spec1, spec2) ==
    /\ Keys(spec1) = Keys(spec2)
    /\ \A k \in Keys(spec1) : ToSet(Cats(spec1, k)) = ToSet(Cats(spec2, k))

\* ParamSpace.__len__
RECURSIVE SpaceLen(_)
SpaceLen(spec) ==
    IF spec = <<>> THEN 1 ELSE Len(Head(spec)[2]) * SpaceLen(Tail(spec))

----------------------------------------------------------------------------
(* Point *)

\* Point.validate_key: every name of the space is in the key, with a value
\* of that dimension's list
ValidKey(spec, key) ==
    \A i \in DOMAIN spec :
        /\ spec[i][1] \in DOMAIN key
        /\ key[spec[i][1]] \in ToSet(spec[i][2])

\* ParamSpace.make_point / Point.__init__: the whole key is kept
make_point(spec, key) ==
    IF ValidKey(spec, key) THEN Ok([pspace |-> spec, key |-> key]) ELSE TypeErr

\* Point.__hash__: only the entries of the space's names are hashed
PointHash(p) == {<<k, p.key[k]>> : k \in DOMAIN p.key \cap Keys(p.pspace)}

\* Point.__eq__
PointEq(p, q) ==
    /\ SpaceEq(p.pspace, q.pspace)
    /\ \A k \in Keys(p.pspace) : p.key[k] = q.key[k]

\* itertools.product(*categories): the last list varies fastest
RECURSIVE product(_)
product(lists) ==
    IF lists = <<>> THEN << <<>> >>
    ELSE LET rest == product(Tail(lists))
             first == Head(lists)
         IN [i \in 1..(Len(first) * Len(rest)) |->
                <<first[((i - 1) \div Len(rest)) + 1]>>
                    \o rest[((i - 1) % Len(rest)) + 1]]

\* dict(zip(names, values)) for the names of spec
ZipKey(spec, values) ==
    [k \in Keys(spec) |-> values[CHOOSE i \in DOMAIN spec : spec[i][1] = k]]

\* ParamSpace.points, as the sequence it yields
points(spec) ==
    LET combos == product([i \in DOMAIN spec |-> spec[i][2]])
    IN [i \in DOMAIN combos |-> [pspace |-> spec, key |-> ZipKey(spec, combos[i])]]

----------------------------------------------------------------------------
(* dict keyed by Points *)

\* the entries of d whose key has the hash of p and equals p
DictFind(d, p) ==
    {i \in DOMAIN d : PointHash(d[i][1]) = PointHash(p) /\ PointEq(d[i][1], p)}

\* p in d
DictHas(d, p) == DictFind(d, p) # {}

\* d[p], for p in d
DictGet(d, p) == d[CHOOSE i \in DictFind(d, p) : TRUE][2]

\* d[p] = v: an entry with an equal key keeps its key and takes the value,
\* a new key is appended
DictSet(d, p, v) ==
    IF DictHas(d, p)
    THEN LET i == CHOOSE j \in DictFind(d, p) : TRUE
         IN [d EXCEPT ![i] = <<d[i][1], v>>]
    ELSE Append(d, <<p, v>>)

----------------------------------------------------------------------------
(* Map *)

\* Map.validate_map
validate_map_mut_any(spec, d) ==
    LET ps == points(spec)
    IN IF ps = <<>> \/ \E i \in DOMAIN ps : DictHas(d, ps[i])
       THEN Ok(d) ELSE TypeErr

validate_map(spec, d) ==
    LET ps == points(spec)
    IN IF \A i \in DOMAIN ps : DictHas(d, ps[i]) THEN Ok(d) ELSE TypeErr

\* Map.__init__ / ParamSpace.make_map
make_map(spec, d) ==
    LET v == validate_map(spec, d)
    IN IF v.ok THEN Ok([pspace |-> spec, map |-> v.val]) ELSE TypeErr

\* Map.__getitem__
Map_getitem(m, point) ==
    IF ~SpaceEq(point.pspace, m.pspace) THEN TypeErr
    ELSE IF DictHas(m.map, point) THEN Ok(DictGet(m.map, point))
    ELSE KeyErr

\* Map.__setitem__: the Map after the call
Map_setitem(m, point, value) ==
    IF ~SpaceEq(point.pspace, m.pspace) THEN TypeErr
    ELSE Ok([m EXCEPT !.map = DictSet(m.map, point, value)])

----------------------------------------------------------------------------
(* Projection and reshape operators *)

\* ParamSpace.subspace, for a list of names
subspace(spec, names) ==
    IF \E i \in DOMAIN names : names[i] \notin Keys(spec) THEN TypeErr
    ELSE Ok([i \in DOMAIN names |-> <<names[i], Cats(spec, names[i])>>])

\* contract_point: a key entry missing from point2 is a KeyError
contract_point(point2, spec1) ==
    IF ~(Keys(spec1) \subseteq DOMAIN point2.key) THEN KeyErr
    ELSE make_point(spec1, [k \in Keys(spec1) |-> point2.key[k]])

\* the key expand_point builds for the extra Point p: p's key, overwritten
\* by the entries of point1's key
expand_key(p, pt1) == pt1.key @@ p.key

\* expand_point, as the sequence it yields when run to its end; a make_point
\* that raises ends it with the Points yielded until then
expand_point(pt1, spec2, o) ==
    LET extra_space == difference(spec2, pt1.pspace, o)
        ps == points(extra_space.val)
        made == [i \in DOMAIN ps |-> make_point(spec2, expand_key(ps[i], pt1))]
        bad == {i \in DOMAIN made : ~made[i].ok}
    IN IF ~extra_space.ok THEN [TypeErr EXCEPT !.err = "TypeError in difference"]
       ELSE IF bad = {} THEN Ok([i \in DOMAIN made |-> made[i].val])
       ELSE LET n == CHOOSE i \in bad : \A j \in bad : i <= j
            IN [done |-> TRUE, ok |-> FALSE, err |-> "TypeError",
                yielded |-> [i \in 1..(n - 1) |-> made[i].val]]

\* the loop of stack_map over map2.pspace.points()[i..]: extra_map_dict
RECURSIVE stack_loop(_, _, _, _, _)
stack_loop(m2, spec1, extra_space, i, extra_map_dict) ==
    LET ps == points(m2.pspace) IN
    IF i > Len(ps) THEN Ok(extra_map_dict)
    ELSE LET extra_point == contract_point(ps[i], extra_space)
             pt1 == contract_point(ps[i], spec1)
             v == Map_getitem(m2, ps[i])
         IN IF ~extra_point.ok THEN extra_point
            ELSE IF ~pt1.ok THEN pt1
            ELSE IF ~v.ok THEN v
            ELSE LET inner == IF DictHas(extra_map_dict, pt1.val)
                              THEN DictGet(extra_map_dict, pt1.val) ELSE <<>>
                 IN stack_loop(m2, spec1, extra_space, i + 1,
                        DictSet(extra_map_dict, pt1.val,
                                DictSet(inner, extra_point.val, v.val)))

\* stack_map
stack_map(m2, spec1, o) ==
    LET extra_space == difference(m2.pspace, spec1, o)
        d == stack_loop(m2, spec1, extra_space.val, 1, <<>>)
        maps == [i \in DOMAIN d.val |->
                    <<d.val[i][1], make_map(extra_space.val, d.val[i][2])>>]
    IN IF ~extra_space.ok THEN TypeErr
       ELSE IF ~d.ok THEN d
       ELSE IF \E i \in DOMAIN maps : ~maps[i][2].ok THEN TypeErr
       ELSE make_map(spec1, [i \in DOMAIN maps |-> <<maps[i][1], maps[i][2].val>>])

\* the inner loop of unstack_map over expand_point(point1, pspace2)[j..]
RECURSIVE unstack_inner(_, _, _, _, _, _)
unstack_inner(m1, pt1, exp, extra_space, j, new_map_dict) ==
    IF j > Len(exp) THEN Ok(new_map_dict)
    ELSE LET extra_point == contract_point(exp[j], extra_space)
             row == Map_getitem(m1, pt1)
             v == Map_getitem(row.val, extra_point.val)
         IN IF ~extra_point.ok THEN extra_point
            ELSE IF ~row.ok THEN row
            ELSE IF ~v.ok THEN v
            ELSE unstack_inner(m1, pt1, exp, extra_space, j + 1,
                               DictSet(new_map_dict, exp[j], v.val))

\* the outer loop of unstack_map over map1.pspace.points()[i..]
RECURSIVE unstack_loop(_, _, _, _, _, _)
unstack_loop(m1, spec2, extra_space, o, i, new_map_dict) ==
    LET ps == points(m1.pspace) IN
    IF i > Len(ps) THEN Ok(new_map_dict)
    ELSE LET exp == expand_point(ps[i], spec2, o)
             inner == unstack_inner(m1, ps[i],
                          IF exp.ok THEN exp.val ELSE exp.yielded,
                          extra_space, 1, new_map_dict)
         IN IF ~exp.ok /\ exp.err = "TypeError in difference" THEN TypeErr
            ELSE IF ~inner.ok THEN inner
            ELSE IF ~exp.ok THEN TypeErr
            ELSE unstack_loop(m1, spec2, extra_space, o, i + 1, inner.val)

\* unstack_map
unstack_map(m1, spec2, o) ==
    LET extra_space == difference(spec2, m1.pspace, o)
        d == unstack_loop(m1, spec2, extra_space.val, o, 1, <<>>)
    IN IF ~extra_space.ok THEN TypeErr
       ELSE IF ~d.ok THEN d
       ELSE make_map(spec2, d.val)

----------------------------------------------------------------------------
(* The reachability recurrence of graph_traversal.py                       *)
(*                                                                         *)
(* A vertex V(i) is written i.  A Point of reachable_space is written as   *)
(* its key [v1, v2, steps], a Point of vertex_pair_space as [v1, v2]; the  *)
(* dict of a Map over one of these spaces is written as the function from  *)
(* the keys of its Points to its values.                                   *)

\* g.vs = [v1, ..., v5]
NumVertices == 5

Vertices == 1..NumVertices

\* max_steps = len(g.vs)
max_steps == NumVertices

\* g.es as written: v1->v2, v2->v3, v3->v4, v3->v5
SourceEdges == {<<1, 2>>, <<2, 3>>, <<3, 4>>, <<3, 5>>}

\* the path graph v1->v2->v3->v4->v5
PathEdges == {<<1, 2>>, <<2, 3>>, <<3, 4>>, <<4, 5>>}

\* the graphs the recurrence is run on
Graphs == {SourceEdges, PathEdges}

\* vertex_pair_space.points()
PairPoints == [v1 : Vertices, v2 : Vertices]

\* reachable_space.points()
ReachPoints == [v1 : Vertices, v2 : Vertices, steps : 1..max_steps]

\* MappedFunction.unevaluated, the sentinel object
Unevaluated == [sentinel |-> TRUE]

\* a value as an entry of the cache: never the sentinel
Value(v) == [sentinel |-> FALSE, value |-> v]

\* is_edge
is_edge_mut_reversed(point, es) ==
    \E e \in es : e[2] = point.v1 /\ e[1] = point.v2

is_edge(point, es) ==
    \E e \in es : e[1] = point.v1 /\ e[2] = point.v2

\* edge_map = vertex_pair_space.lift_function(is_edge)(points_map, unit_map(g)):
\* Function.__call__ evaluates is_edge at every Point
edge_map(es) == [pt \in PairPoints |-> is_edge(pt, es)]

\* unit_map(pspace, unit), here the initial cache over reachable_space
unit_map(pts, unit) == [pt \in pts |-> unit]

\* contract_point(point, vertex_pair_space)
contract_to_pair(point) == [v1 |-> point.v1, v2 |-> point.v2]

\* update_point(point, patch): point's key overridden by patch's entries
update_point(point, patch) == patch @@ point

\* point_region(vertex_pair_space, {'v2': v}): the Points with that v2, in
\* the order of g.vs
point_region(v) == [i \in Vertices |-> [v1 |-> i, v2 |-> v]]

\* what a run of the wrapped function does next: return a value, or look a
\* Point up and go on at pc (with loop index i) when the lookup returns
Return(v) == [kind |-> "return", value |-> v]
Call(pt, pc, i) == [kind |-> "call", arg |-> pt, pc |-> pc, i |-> i]

\* the for loop of reachable_in_x from frontier index j on
frontier_loop(point, j, es) ==
    LET frontier_points == point_region(point.v2)
        edgeAt == {k \in Vertices : k >= j /\ edge_map(es)[frontier_points[k]]}
    IN IF edgeAt = {} THEN Return(FALSE)
       ELSE LET k == CHOOSE n \in edgeAt : \A m \in edgeAt : n <= m
            IN Call(update_point(point, [steps |-> point.steps - 1,
                                         v2 |-> frontier_points[k].v1]),
                    "loop", k)

\* reachable_in_x(point, reachable_in_1_map, reachable_in_x_map), run from
\* position pc (r: the value the pending lookup returned) up to its next
\* lookup of reachable_in_x_map or to its return
reachable_in_x(point, pc, i, r, es) ==
    LET x == point.steps IN
    IF pc = "start" THEN
        IF x = 1 THEN Return(edge_map(es)[contract_to_pair(point)])
        ELSE Call(update_point(point, [steps |-> x - 1]), "prev", 0)
    ELSE IF r THEN Return(TRUE)
    ELSE IF pc = "prev" THEN frontier_loop(point, 1, es)
    ELSE frontier_loop(point, i + 1, es)

\* a wrapped function that looks its own Point up: lambda point, m: m[point]
lookup_self(point, pc, r) ==
    IF pc = "start" THEN Call(point, "prev", 0) ELSE Return(r)

\* the functions a MappedFunction is built around
WrappedFunctions == {"reachable_in_x", "lookup_self"}

\* self.function.function(*args), run from pc to its next lookup or return
wrapped_mut_base(f, point, pc, i, r, es) ==
    IF f = "reachable_in_x" THEN reachable_in_x(point, pc, i, r, es)
    ELSE Return(FALSE)

wrapped(f, point, pc, i, r, es) ==
    IF f = "reachable_in_x" THEN reachable_in_x(point, pc, i, r, es)
    ELSE lookup_self(point, pc, r)

\* self.cache_map[point] = value
CacheStore_mut_skip(cache, point, value) == cache

CacheStore_mut_evict(cache, point, value) ==
    [pt \in DOMAIN cache |-> IF pt = point THEN Value(value) ELSE Unevaluated]

CacheStore(cache, point, value) == [cache EXCEPT ![point] = Value(value)]

----------------------------------------------------------------------------
(* Input domains *)

\* the category lists of length at most MaxLen (repeats and [] included)
CatLists == UNION {[1..n -> Categories] : n \in 0..MaxLen}

\* the specs over the names of K, in every insertion order
SpacesOver(K) ==
    {[i \in DOMAIN o |-> <<o[i], ls[i]>>] :
        o \in {IterSet(K, so) : so \in SetOrders},
        ls \in [1..Cardinality(K) -> CatLists]}

Spaces == UNION {SpacesOver(K) : K \in SUBSET DimNames}

\* ParamSpace.add, for one added dimension: an existing name keeps its place
add(spec, name, list) ==
    IF name \in Keys(spec)
    THEN [i \in DOMAIN spec |-> IF spec[i][1] = name THEN <<name, list>> ELSE spec[i]]
    ELSE Append(spec, <<name, list>>)

\* ParamSpace.drop, for names present in the spec
drop(spec, names) == LET kept(d) == d[1] \notin names IN SelectSeq(spec, kept)

Reverse(l) == [i \in DOMAIN l |-> l[Len(l) + 1 - i]]

\* an equivalent space built independently: the dimensions and each
\* dimension's categories in the opposite order
Twin(spec) == Reverse([i \in DOMAIN spec |-> <<spec[i][1], Reverse(spec[i][2])>>])

\* the spaces whose Points are offered to a Map over spec: the space, its
\* twin, and spaces that are not equivalent to it (a category more, a
\* dimension less, a dimension more)
ProbeSpaces(spec) ==
    {spec, Twin(spec)} \cup
    (IF spec = <<>> THEN {add(spec, "x", <<1>>)}
     ELSE {add(spec, spec[1][1], spec[1][2] \o <<3>>), drop(spec, {spec[1][1]})})

\* the Points of spec, and each of them with one key entry beyond the space's names
PointsWithExtras(spec) ==
    ToSet(points(spec)) \cup
    {[pspace |-> spec, key |-> p.key @@ (n :> c)] :
        p \in ToSet(points(spec)), n \in DimNames \ Keys(spec), c \in Categories}

ProbePoints(spec) ==
    PointsWithExtras(spec) \cup UNION {ToSet(points(ps)) : ps \in ProbeSpaces(spec)}

\* the keys of the Points of spec
DistinctKeys(spec) == {p.key : p \in ToSet(points(spec))}

\* the dict that maps the Points of keyspace whose key is in DOMAIN f to f's
\* values, inserted in the order of keyspace.points()
DictOf(keyspace, f) ==
    LET ps == points(keyspace)
        first(i) == ps[i].key \in DOMAIN f /\ \A j \in 1..(i - 1) : ps[j].key # ps[i].key
        idx == SelectSeq([i \in DOMAIN ps |-> i], first)
    IN [n \in DOMAIN idx |-> <<ps[idx[n]], f[ps[idx[n]].key]>>]

\* the spaces that Maps are built over
MapSpaces == {s \in Spaces : SpaceLen(s) <= MaxPoints}

\* the vertices that outermost lookups ask reachability from
QuerySources == {1, 2}

\* the Points of outermost lookups
QueryPoints == {pt \in ReachPoints : pt.v1 \in QuerySources}

\* Space{'x':[1,2]} and Space{'x':[3,4]}
ExampleA == << <<"x", <<1, 2>> >> >>
ExampleB == << <<"x", <<3, 4>> >> >>

----------------------------------------------------------------------------
(* The space algebra: union, intersection, points *)

\* no space operation under way
IdleSpace ==
    /\ self = <<>>
    /\ other_space = <<>>
    /\ unionRes = NotRun
    /\ absorbRes = NotRun
    /\ enumRes = <<>>

\* no Map built
IdleMap ==
    /\ map_pspace = <<>>
    /\ map_arg = <<>>
    /\ map_obj = NotRun
    /\ map_op = NotRun

\* no reshape or projection under way
IdleReshape ==
    /\ pspace1 = <<>>
    /\ pspace2 = <<>>
    /\ map2 = NotRun
    /\ stacked = NotRun
    /\ unstacked = NotRun
    /\ point1 = NotRun
    /\ expanded = NotRun
    /\ contracted = <<>>

\* no memoized function built
IdleMemo ==
    /\ graph = {}
    /\ cache_map = <<>>
    /\ stack = <<>>
    /\ ret = NotRun
    /\ calls = <<>>
    /\ prev = NotRun
    /\ repeated = FALSE
    /\ lookups = 0
    /\ function = "none"

InitSpace ==
    /\ \/ self \in Spaces /\ other_space \in Spaces
       \/ self = ExampleA /\ other_space = ExampleB
    /\ unionRes = NotRun
    /\ absorbRes = NotRun
    /\ enumRes = <<>>
    /\ IdleMap
    /\ IdleReshape
    /\ IdleMemo

\* u = self.union(other_space)
Union ==
    /\ ~unionRes.done
    /\ \E o \in SetOrders : unionRes' = union(self, other_space, o)
    /\ UNCHANGED <<self, other_space, absorbRes, enumRes, mapVars, reshapeVars, memoVars>>

\* u.intersection(self)
Absorb ==
    /\ unionRes.done /\ unionRes.ok
    /\ ~absorbRes.done
    /\ \E o \in SetOrders : absorbRes' = intersection(unionRes.val, self, o)
    /\ UNCHANGED <<self, other_space, unionRes, enumRes, mapVars, reshapeVars, memoVars>>

NextSpace == Union \/ Absorb

SpecSpace == InitSpace /\ [][NextSpace]_vars

\* Enumeration of one space
InitEnum ==
    /\ self \in Spaces
    /\ other_space = <<>>
    /\ unionRes = NotRun
    /\ absorbRes = NotRun
    /\ enumRes = <<>>
    /\ IdleMap
    /\ IdleReshape
    /\ IdleMemo

\* list(self.points()), called up to twice
Enumerate ==
    /\ Len(enumRes) < 2
    /\ enumRes' = Append(enumRes, points(self))
    /\ UNCHANGED <<self, other_space, unionRes, absorbRes, mapVars, reshapeVars, memoVars>>

NextEnum == Enumerate

SpecEnum == InitEnum /\ [][NextEnum]_vars

----------------------------------------------------------------------------
(* Map: construction, get, set *)

InitMap ==
    /\ IdleSpace
    /\ IdleReshape
    /\ IdleMemo
    /\ map_pspace \in MapSpaces
    /\ map_arg = <<>>
    /\ map_obj = NotRun
    /\ map_op = NotRun

\* Map(pspace, map), for a dict over some Points of the space or of its twin
Construct ==
    /\ ~map_obj.done
    /\ \E ks \in {map_pspace, Twin(map_pspace)}, K \in SUBSET DistinctKeys(map_pspace) :
        \E f \in [K -> Values] :
            /\ map_arg' = DictOf(ks, f)
            /\ map_obj' = make_map(map_pspace, DictOf(ks, f))
    /\ UNCHANGED <<map_pspace, map_op, spaceVars, reshapeVars, memoVars>>

\* m[point]
GetItem ==
    /\ map_obj.done /\ map_obj.ok
    /\ \E point \in ProbePoints(map_pspace) :
        map_op' = [done |-> TRUE, op |-> "get", point |-> point,
                   res |-> Map_getitem(map_obj.val, point)]
    /\ UNCHANGED <<map_pspace, map_arg, map_obj, spaceVars, reshapeVars, memoVars>>

\* m[point] = value
SetItem ==
    /\ map_obj.done /\ map_obj.ok
    /\ \E point \in ProbePoints(map_pspace), value \in Values :
        LET r == Map_setitem(map_obj.val, point, value)
        IN /\ map_op' = [done |-> TRUE, op |-> "set", point |-> point,
                         value |-> value,
                         res |-> IF r.ok THEN Ok("None") ELSE r]
           /\ map_obj' = IF r.ok THEN r ELSE map_obj
    /\ UNCHANGED <<map_pspace, map_arg, spaceVars, reshapeVars, memoVars>>

NextMap == Construct \/ GetItem \/ SetItem

SpecMap == InitMap /\ [][NextMap]_vars

----------------------------------------------------------------------------
(* Stacking and unstacking a flat Map over S1.union(S2) *)

InitReshape ==
    /\ IdleSpace
    /\ IdleMap
    /\ IdleMemo
    /\ \E K1 \in SUBSET DimNames : \E K2 \in SUBSET (DimNames \ K1) :
          /\ pspace1 \in SpacesOver(K1)
          /\ pspace2 \in SpacesOver(K2)
    /\ map2 = NotRun
    /\ stacked = NotRun
    /\ unstacked = NotRun
    /\ point1 = NotRun
    /\ expanded = NotRun
    /\ contracted = <<>>

\* m = S1.union(S2).make_map({...}), with any values
BuildFlat ==
    /\ ~map2.done
    /\ \E o \in SetOrders :
          LET u == union(pspace1, pspace2, o).val
          IN \E f \in [DistinctKeys(u) -> Values] :
                map2' = make_map(u, DictOf(u, f))
    /\ UNCHANGED <<pspace1, pspace2, stacked, unstacked, point1, expanded,
                   contracted, spaceVars, mapVars, memoVars>>

\* stack_map(m, S1)
Stack ==
    /\ map2.done /\ map2.ok
    /\ ~stacked.done
    /\ \E o \in SetOrders : stacked' = stack_map(map2.val, pspace1, o)
    /\ UNCHANGED <<pspace1, pspace2, map2, unstacked, point1, expanded,
                   contracted, spaceVars, mapVars, memoVars>>

\* unstack_map(stacked, S1.union(S2))
Unstack ==
    /\ stacked.done /\ stacked.ok
    /\ ~unstacked.done
    /\ \E o \in SetOrders : unstacked' = unstack_map(stacked.val, map2.val.pspace, o)
    /\ UNCHANGED <<pspace1, pspace2, map2, stacked, point1, expanded,
                   contracted, spaceVars, mapVars, memoVars>>

NextReshape == BuildFlat \/ Stack \/ Unstack

SpecReshape == InitReshape /\ [][NextReshape]_vars

----------------------------------------------------------------------------
(* Projection: expand_point and contract_point between a subspace and its
   superspace *)

\* the lists of distinct names drawn from K
NameLists(K) == UNION {{IterSet(J, o) : o \in SetOrders} : J \in SUBSET K}

InitProject ==
    /\ IdleSpace
    /\ IdleMap
    /\ IdleMemo
    /\ pspace2 \in Spaces
    /\ \E names \in NameLists(Keys(pspace2)) :
          pspace1 \in {subspace(pspace2, names).val, Twin(subspace(pspace2, names).val)}
    /\ map2 = NotRun
    /\ stacked = NotRun
    /\ unstacked = NotRun
    /\ point1 = NotRun
    /\ expanded = NotRun
    /\ contracted = <<>>

\* p = S1.make_point(key), for a key over the names of S1 and possibly more
MakePoint ==
    /\ ~point1.done
    /\ \E K \in SUBSET DimNames : \E key \in [K -> Categories] :
          /\ Keys(pspace1) \subseteq K
          /\ point1' = make_point(pspace1, key)
    /\ UNCHANGED <<pspace1, pspace2, map2, stacked, unstacked, expanded,
                   contracted, spaceVars, mapVars, memoVars>>

\* qs = list(expand_point(p, S2))
Expand ==
    /\ point1.done /\ point1.ok
    /\ ~expanded.done
    /\ \E o \in SetOrders : expanded' = expand_point(point1.val, pspace2, o)
    /\ UNCHANGED <<pspace1, pspace2, map2, stacked, unstacked, point1,
                   contracted, spaceVars, mapVars, memoVars>>

\* [contract_point(q, S1) for q in qs], for the Points that were yielded
Contract ==
    /\ expanded.done
    /\ contracted = <<>>
    /\ LET qs == IF expanded.ok THEN expanded.val ELSE expanded.yielded
       IN /\ qs # <<>>
          /\ contracted' = [i \in DOMAIN qs |-> contract_point(qs[i], pspace1)]
    /\ UNCHANGED <<pspace1, pspace2, map2, stacked, unstacked, point1,
                   expanded, spaceVars, mapVars, memoVars>>

NextProject == MakePoint \/ Expand \/ Contract

SpecProject == InitProject /\ [][NextProject]_vars

----------------------------------------------------------------------------
(* MappedFunction: lookups of reachable_in_x_map *)

InitMemo ==
    /\ IdleSpace
    /\ IdleMap
    /\ IdleReshape
    /\ graph \in Graphs
    /\ cache_map = unit_map(ReachPoints, Unevaluated)
    /\ stack = <<>>
    /\ ret = NotRun
    /\ calls = [pt \in ReachPoints |-> 0]
    /\ prev = NotRun
    /\ repeated = FALSE
    /\ lookups = 0
    /\ function = "reachable_in_x"

Top == stack[Len(stack)]

Pop == SubSeq(stack, 1, Len(stack) - 1)

\* the return of the innermost __getitem__ with value v; the outermost
\* one hands v to the caller
ReturnValue(v) ==
    /\ stack' = Pop
    /\ ret' = Ok(v)
    /\ IF Len(stack) = 1
       THEN /\ prev' = [done |-> TRUE, point |-> Top.point, value |-> v]
            /\ repeated' = (prev.done /\ prev.point = Top.point)
       ELSE UNCHANGED <<prev, repeated>>

\* the wrapped function either returns, and __getitem__ stores and returns
\* the value, or looks a Point up
Advance(step) ==
    IF step.kind = "return"
    THEN /\ cache_map' = CacheStore(cache_map, Top.point, step.value)
         /\ ReturnValue(step.value)
    ELSE IF Len(stack) < RecursionLimit
    THEN /\ stack' = Append([stack EXCEPT ![Len(stack)] =
                                [point |-> Top.point, pc |-> step.pc, i |-> step.i]],
                            [point |-> step.arg, pc |-> "getitem", i |-> 0])
         /\ UNCHANGED <<cache_map, ret, prev, repeated>>
    \* the nested call exceeds the recursion limit: RecursionError passes
    \* through every __getitem__ in progress, none of which stores a value
    ELSE /\ stack' = <<>>
         /\ ret' = RecursionErr
         /\ UNCHANGED <<cache_map, prev, repeated>>

\* reachable_in_x_map[point], called from outside
Lookup ==
    /\ stack = <<>>
    /\ lookups < MaxLookups
    /\ lookups' = lookups + 1
    /\ \E point \in QueryPoints :
          stack' = <<[point |-> point, pc |-> "getitem", i |-> 0]>>
    /\ UNCHANGED <<graph, cache_map, ret, calls, prev, repeated, function,
                   spaceVars, mapVars, reshapeVars>>

\* reachable_in_x_map[point] for a Point of vertex_pair_space: TypeError
LookupOtherSpace ==
    /\ stack = <<>>
    /\ lookups < MaxLookups
    /\ lookups' = lookups + 1
    /\ ret' = TypeErr
    /\ UNCHANGED <<graph, cache_map, stack, calls, prev, repeated, function,
                   spaceVars, mapVars, reshapeVars>>

\* __getitem__: the cache holds a value for the Point
GetItemHit ==
    /\ stack # <<>>
    /\ Top.pc = "getitem"
    /\ cache_map[Top.point] # Unevaluated
    /\ ReturnValue(cache_map[Top.point].value)
    /\ UNCHANGED <<graph, cache_map, calls, lookups, function,
                   spaceVars, mapVars, reshapeVars>>

\* __getitem__: the entry is unevaluated, the wrapped function is invoked
GetItemMiss ==
    /\ stack # <<>>
    /\ Top.pc = "getitem"
    /\ cache_map[Top.point] = Unevaluated
    /\ calls' = [calls EXCEPT ![Top.point] = @ + 1]
    /\ Advance(wrapped(function, Top.point, "start", 0, FALSE, graph))
    /\ UNCHANGED <<graph, lookups, function, spaceVars, mapVars, reshapeVars>>

\* the wrapped function goes on after a lookup it made has returned
Resume ==
    /\ stack # <<>>
    /\ Top.pc \in {"prev", "loop"}
    /\ Advance(wrapped(function, Top.point, Top.pc, Top.i, ret.val, graph))
    /\ UNCHANGED <<graph, calls, lookups, function, spaceVars, mapVars, reshapeVars>>

NextMemo == Lookup \/ LookupOtherSpace \/ GetItemHit \/ GetItemMiss \/ Resume

SpecMemo == InitMemo /\ [][NextMemo]_vars

----------------------------------------------------------------------------
(* MappedFunction around a function that recurses into the MappedFunction *)

InitRecur ==
    /\ IdleSpace
    /\ IdleMap
    /\ IdleReshape
    /\ graph \in Graphs
    /\ function \in WrappedFunctions
    /\ cache_map = unit_map(ReachPoints, Unevaluated)
    /\ stack = <<>>
    /\ ret = NotRun
    /\ calls = [pt \in ReachPoints |-> 0]
    /\ prev = NotRun
    /\ repeated = FALSE
    /\ lookups = 0

\* the targets of the outermost lookups: v1 itself, which no path leads
\* back to, and v5, the end of the longest path
RecurTargets == {1, NumVertices}

\* the Points of the outermost lookups, from v1
RecurPoints == {pt \in ReachPoints : pt.v1 = 1 /\ pt.v2 \in RecurTargets}

\* reachable_in_x_map[point], called from outside
LookupRecur ==
    /\ stack = <<>>
    /\ lookups < MaxLookups
    /\ lookups' = lookups + 1
    /\ \E point \in RecurPoints :
          stack' = <<[point |-> point, pc |-> "getitem", i |-> 0]>>
    /\ UNCHANGED <<graph, cache_map, ret, calls, prev, repeated, function,
                   spaceVars, mapVars, reshapeVars>>

\* the interpreter runs a call in progress to its next step
Running == GetItemHit \/ GetItemMiss \/ Resume

NextRecur == LookupRecur \/ GetItemHit \/ GetItemMiss \/ Resume

\* a call in progress is not suspended: there is no I/O, no other thread
SpecRecur == InitRecur /\ [][NextRecur]_vars /\ WF_vars(Running)

----------------------------------------------------------------------------
(* C2: Map totality *)

\* the spaces have the same dimension names and, per name, the same set of
\* categories
Equivalent(s1, s2) ==
    /\ {s1[i][1] : i \in DOMAIN s1} = {s2[i][1] : i \in DOMAIN s2}
    /\ \A i \in DOMAIN s1, j \in DOMAIN s2 :
          s1[i][1] = s2[j][1] => ToSet(s1[i][2]) = ToSet(s2[j][2])

\* the entries of dict d whose key has the coordinates of key in the Map's space
EntriesAt(d, key) ==
    {i \in DOMAIN d :
        /\ Equivalent(d[i][1].pspace, map_pspace)
        /\ \A n \in Keys(map_pspace) : d[i][1].key[n] = key[n]}

\* dict d has exactly one entry for every Point of the Map's space
Covers(d) == \A k \in DistinctKeys(map_pspace) : Cardinality(EntriesAt(d, k)) = 1

MapTotal ==
    /\ map_obj.done => (map_obj.ok <=> Covers(map_arg))
    /\ (map_obj.done /\ map_obj.ok) =>
          /\ Covers(map_obj.val.map)
          /\ \A p \in ToSet(points(map_pspace)) : Map_getitem(map_obj.val, p).ok

SetKeepsCoverage ==
    (map_obj.done /\ map_obj.ok) =>
        LET old == map_obj.val.map
            new == map_obj'.val.map
        IN /\ map_obj'.ok
           /\ [i \in DOMAIN new |-> new[i][1]] = [i \in DOMAIN old |-> old[i][1]]
           /\ \A i \in DOMAIN old :
                 new[i][2] # old[i][2] => i \in EntriesAt(old, map_op'.point.key)

\* C2: Map(pspace, map) succeeds exactly when the dict has a value for every
\* Point of the space; every Point of the space is then retrievable, in every
\* later state; and a set call leaves the covered Points as they were,
\* changing at most the value at the given Point.
C2_MapTotality == []MapTotal /\ [][SetKeepsCoverage]_vars

\* a set through a Point of the twin space has changed a value of a Map
\* over two Points
C2_Witness ==
    /\ map_obj.done /\ map_obj.ok /\ map_op.done
    /\ map_op.op = "set" /\ map_op.res.ok
    /\ Len(map_obj.val.map) = 2
    /\ \E i \in DOMAIN map_arg : map_arg[i][2] # map_obj.val.map[i][2]

----------------------------------------------------------------------------
(* C3: stack/unstack inverse law *)

\* the values a Map object holds for the Points with the coordinates of key
ValuesAt(m, key) ==
    {m.map[i][2] : i \in {j \in DOMAIN m.map :
        \A n \in Keys(m.pspace) : m.map[j][1].key[n] = key[n]}}

\* C3: for a flat Map m over S1.union(S2), S1 and S2 with disjoint names,
\* stack_map(m, S1) succeeds and unstack_map of it over S1.union(S2) is a Map
\* over that space holding m's value at every Point.
C3_StackUnstackInverse ==
    /\ stacked.done => stacked.ok
    /\ unstacked.done =>
          /\ unstacked.ok
          /\ Equivalent(unstacked.val.pspace, map2.val.pspace)
          /\ Keys(unstacked.val.pspace) = Keys(pspace1) \cup Keys(pspace2)
          /\ \A k \in DistinctKeys(map2.val.pspace) :
                /\ Cardinality(ValuesAt(unstacked.val, k)) = 1
                /\ ValuesAt(unstacked.val, k) = ValuesAt(map2.val, k)

----------------------------------------------------------------------------
(* C4: projection round trip *)

\* the space of S2's dimensions that are not in S1
ExtraSpace == drop(pspace2, Keys(pspace1))

\* the restriction of a key to the names of spec
Restrict(key, spec) == [n \in Keys(spec) |-> key[n]]

\* C4 as stated: expand_point(p, S2) yields Points of S2, exactly one per
\* Point of the space of S2's dimensions not in S1, and every one of them
\* contracts back to p.
C4_ProjectionRoundTrip ==
    /\ expanded.done =>
          /\ expanded.ok
          /\ Len(expanded.val) = SpaceLen(ExtraSpace)
          /\ \A i \in DOMAIN expanded.val :
                /\ expanded.val[i].pspace = pspace2
                /\ ValidKey(pspace2, expanded.val[i].key)
          /\ \A e \in DistinctKeys(ExtraSpace) :
                Cardinality({i \in DOMAIN expanded.val :
                                Restrict(expanded.val[i].key, ExtraSpace) = e})
                = Cardinality({j \in DOMAIN points(ExtraSpace) :
                                points(ExtraSpace)[j].key = e})
    /\ \A i \in DOMAIN contracted :
          /\ contracted[i].ok
          /\ PointEq(contracted[i].val, point1.val)

----------------------------------------------------------------------------
(* C8: get and set check the Point's space by equivalence *)

SpaceCheck ==
    map_op.done =>
        LET pt == map_op.point
            d == map_obj.val.map
        IN IF Equivalent(pt.pspace, map_pspace)
           THEN /\ map_op.res.ok
                /\ Cardinality(EntriesAt(d, pt.key)) = 1
                /\ \A i \in EntriesAt(d, pt.key) :
                      IF map_op.op = "get" THEN map_op.res.val = d[i][2]
                      ELSE map_op.value = d[i][2]
           ELSE map_op.res = TypeErr

RejectLeavesMap == (map_op'.done /\ ~map_op'.res.ok) => map_obj' = map_obj

\* C8: get and set accept a Point exactly when its space is equivalent to the
\* Map's space (same names, same category sets, any order) and then address
\* the entry of the Map's own Point with those coordinates; any other Point
\* is rejected with a TypeError and the Map stays as it was.
C8_EquivalenceCheck == []SpaceCheck /\ [][RejectLeavesMap]_vars

\* a set accepted through a Point of a differently ordered, equivalent space
C8_Witness ==
    /\ map_op.done /\ map_op.op = "set" /\ map_op.res.ok
    /\ map_op.point.pspace # map_pspace
    /\ Len(map_pspace) = 2
    /\ Len(map_obj.val.map) = 2

----------------------------------------------------------------------------
(* C1: idempotent caching *)

AtMostOnce == \A pt \in ReachPoints : calls[pt] <= 1

\* an outermost lookup returns, and it repeats the Point of the one before
RepeatReturns ==
    /\ stack # <<>> /\ stack' = <<>>
    /\ prev.done /\ prev'.point = prev.point

\* C1: the wrapped function is invoked at most once per Point, nested
\* lookups of the self-referential function included, and of two consecutive
\* lookups of the same Point the second returns the value of the first.
C1_IdempotentCaching ==
    /\ []AtMostOnce
    /\ [][RepeatReturns => (ret'.ok /\ ret'.val = prev.value /\ prev'.value = prev.value)]_vars

\* the same Point, whose evaluation looks the function itself up, was looked
\* up twice in a row and the function ran once for it
C1_Witness ==
    /\ stack = <<>> /\ repeated
    /\ prev.point.steps >= 3
    /\ calls[prev.point] = 1
    /\ \E pt \in ReachPoints : pt # prev.point /\ calls[pt] = 1

----------------------------------------------------------------------------
(* C7: the memoized recursion scenario *)

Reach(a, b, k) == [v1 |-> a, v2 |-> b, steps |-> k]

\* pt was resolved to value v, and an outermost lookup of pt returned v
Reports(pt, v) ==
    /\ cache_map[pt] # Unevaluated => cache_map[pt].value = v
    /\ (stack = <<>> /\ prev.done /\ prev.point = pt) =>
          (prev.value = v /\ cache_map[pt] # Unevaluated)

\* C7: on the path graph v1->v2->v3->v4->v5, v1 reaches v4 within 3 steps
\* but not within 2, and v5 within 4 steps but not within 3.
C7_PathGraphReachability ==
    graph = PathEdges =>
        /\ Reports(Reach(1, 4, 3), TRUE)
        /\ Reports(Reach(1, 4, 2), FALSE)
        /\ Reports(Reach(1, 5, 4), TRUE)
        /\ Reports(Reach(1, 5, 3), FALSE)

\* on the path graph, the lookup of (v1, v5, 4 steps) has returned and the
\* four entries are resolved
C7_Witness ==
    /\ graph = PathEdges
    /\ stack = <<>> /\ prev.done /\ prev.point = Reach(1, 5, 4)
    /\ \A pt \in {Reach(1, 4, 3), Reach(1, 4, 2), Reach(1, 5, 4), Reach(1, 5, 3)} :
          cache_map[pt] # Unevaluated

----------------------------------------------------------------------------
(* C10: cache permanence *)

\* the Points whose __getitem__ is in progress
InProgress == {stack[i].point : i \in DOMAIN stack}

CacheStep ==
    \A pt \in ReachPoints :
        /\ cache_map[pt] # Unevaluated => cache_map'[pt] = cache_map[pt]
        /\ cache_map'[pt] # cache_map[pt] =>
              (cache_map'[pt] # Unevaluated /\ pt \in InProgress)

\* C10: the cache starts with every Point of the space at the sentinel; a
\* resolved entry never reverts to the sentinel nor changes its value; and
\* only the entry of a Point whose lookup is in progress gets resolved.
C10_CachePermanence ==
    /\ (DOMAIN cache_map = ReachPoints /\ \A pt \in ReachPoints : cache_map[pt] = Unevaluated)
    /\ [][CacheStep]_vars

\* a second lookup has resolved further entries next to those of the first,
\* and entries are left unevaluated
C10_Witness ==
    /\ stack = <<>> /\ lookups = 2 /\ prev.done /\ ~repeated
    /\ calls[prev.point] = 1
    /\ \E pt \in ReachPoints :
          pt.v1 # prev.point.v1 /\ cache_map[pt] # Unevaluated
    /\ \E pt \in ReachPoints : cache_map[pt] = Unevaluated

----------------------------------------------------------------------------
(* C5: union/intersection absorption *)

Shared == Keys(self) \cap Keys(other_space)

\* C5 as stated: whenever self.union(other_space) succeeds,
\* self.union(other_space).intersection(self) succeeds and is == self.
C5_AbsorptionAsStated ==
    absorbRes.done => (absorbRes.ok /\ SpaceEq(absorbRes.val, self))

\* a shared dimension that self lists empty and other_space lists non-empty
EmptyFilledByOther ==
    \E k \in Shared : Cats(self, k) = <<>> /\ Cats(other_space, k) # <<>>

\* C5 amended: whenever self.union(other_space) succeeds and no shared
\* dimension is empty in self but non-empty in other_space,
\* self.union(other_space).intersection(self) succeeds and is == self.
C5_Absorption ==
    (absorbRes.done /\ ~EmptyFilledByOther) =>
        (absorbRes.ok /\ SpaceEq(absorbRes.val, self))

\* the absorption was computed for spaces that share a dimension with
\* differently ordered lists, other_space having a dimension of its own
C5_Witness ==
    /\ absorbRes.done /\ absorbRes.ok
    /\ \E k \in Shared : Cats(self, k) # Cats(other_space, k)
    /\ Keys(other_space) \ Keys(self) # {}

----------------------------------------------------------------------------
(* C9: the contract of union *)

Conflict(k) ==
    /\ Cats(self, k) # <<>>
    /\ Cats(other_space, k) # <<>>
    /\ ToSet(Cats(self, k)) # ToSet(Cats(other_space, k))

UnionResultOk ==
    /\ unionRes.done =>
        /\ unionRes.ok <=> ~(\E k \in Shared : Conflict(k))
        /\ unionRes.ok =>
            /\ Keys(unionRes.val) = Keys(self) \cup Keys(other_space)
            /\ Len(unionRes.val) = Cardinality(Keys(unionRes.val))
            /\ \A k \in Shared :
                /\ Cats(self, k) = <<>> => Cats(unionRes.val, k) = Cats(other_space, k)
                /\ Cats(other_space, k) = <<>> => Cats(unionRes.val, k) = Cats(self, k)
        /\ (self = ExampleA /\ other_space = ExampleB) => ~unionRes.ok

\* C9: union yields the dimension names of both spaces; it fails exactly when
\* a shared name has two non-empty, set-unequal lists; an empty list on one
\* side gives way to the other side's list; {'x':[1,2]} union {'x':[3,4]}
\* fails; and no step changes either operand.
C9_UnionContract ==
    /\ []UnionResultOk
    /\ [][self' = self /\ other_space' = other_space]_vars

\* a union that succeeded by filling an empty shared dimension from the
\* other side
C9_Witness ==
    /\ unionRes.done /\ unionRes.ok
    /\ \E k \in Shared : Cats(self, k) = <<>> /\ Cats(other_space, k) # <<>>
    /\ \E k \in Shared : Cats(other_space, k) = <<>> /\ Cats(self, k) # <<>>

----------------------------------------------------------------------------
(* C6: enumeration completeness *)

\* C6 as stated: points() yields exactly n1*...*nk Points, pairwise distinct,
\* and a second call yields the same sequence.
C6_EnumerationComplete ==
    \A c \in DOMAIN enumRes :
        /\ Len(enumRes[c]) = SpaceLen(self)
        /\ \A i, j \in DOMAIN enumRes[c] :
              i # j => ~PointEq(enumRes[c][i], enumRes[c][j])
        /\ enumRes[c] = enumRes[1]

----------------------------------------------------------------------------
(* C11: termination of self-referential lookups *)

\* the wrapped function only looks up Points with a smaller 'steps'
Decreasing == function = "reachable_in_x"

\* the wrapped function looks up the Point it is evaluated at
SelfReferential == function = "lookup_self"

\* a lookup of a decreasing function eventually returns a value
EventuallyReturns ==
    (Decreasing /\ stack # <<>>) ~> (stack = <<>> /\ ret.done /\ ret.ok)

\* a decreasing function stays below the recursion limit
NoOverflow == [](Decreasing => ret # RecursionErr)

\* a self-referential lookup never returns a value
NeverValue == [](SelfReferential => ~(ret.done /\ ret.ok))

\* a self-referential lookup never ends in an error
NeverError == [](SelfReferential => ~(ret.done /\ ~ret.ok))

\* a self-referential lookup raises none of the engine's errors
NoEngineError == [](SelfReferential => ret \notin {TypeErr, KeyErr})

\* a self-referential lookup leaves every Point unresolved
StaysUnresolved ==
    [](SelfReferential => \A pt \in ReachPoints : cache_map[pt] = Unevaluated)

\* only the recursion limit ends a self-referential lookup
OnlyAtLimit ==
    [][(SelfReferential /\ stack # <<>> /\ stack' = <<>>)
          => (Len(stack) = RecursionLimit /\ ret' = RecursionErr)]_vars

\* a self-referential lookup grows the stack until the limit is exceeded
Exhausts ==
    (SelfReferential /\ stack # <<>>) ~> (stack = <<>> /\ ret = RecursionErr)

====
